---- MODULE Spec2Model ----
(***************************************************************************)
(* Session lifecycle of workspaces-api/app/app.py: the sessions table, the *)
(* Docker runtime as the handlers see it, and the handlers api_start,      *)
(* api_list, api_stop, toggle_autokill, extend_session and the sweeper     *)
(* cleanup_old_containers.  Every step of a handler is one access to the   *)
(* shared store or runtime together with the local computation before it. *)
(***************************************************************************)
EXTENDS Integers, Sequences, FiniteSets, TLC

VARIABLES
    now,        \* wall clock, in ticks of 1/TicksPerSec second
    sessions,   \* rows of the sessions table
    running,    \* names of the containers the Docker runtime holds
    start,      \* the api_start request in flight
    stop,       \* the api_stop request in flight
    ext,        \* the extend_session request in flight
    sweep,      \* the cleanup_old_containers pass in flight
    out         \* the HTTP response emitted by the step just taken

vars == <<now, sessions, running, start, stop, ext, sweep, out>>

-----------------------------------------------------------------------------
(* Bounds of the model *)

MaxClock == 2       \* ticks the clock advances in small steps
MaxTtl == 1         \* largest ?ttl= argument of a request

(* Program constants *)

DefaultTTL == 7200  \* toggle_autokill's finite lease, extend's default ?ttl=
TicksPerSec == 2    \* datetime.now().isoformat() keeps fractions of a second,
                    \* int(time.time()) and int(created_dt.timestamp()) drop them

-----------------------------------------------------------------------------
(* Inputs *)

NoId == ""                      \* header or cookie absent (None / empty string)
Users == {"a", "a-b"}           \* principals the proxy authenticates
\* <<X-authentik-username header, session['user_id'] cookie>> of a request:
\* nothing, the literal anonymous, header only, cookie only, both, both unlike
Callers == {<<NoId, NoId>>, <<"anonymous", NoId>>, <<"a", NoId>>,
            <<NoId, "a">>, <<"a-b", "a-b">>, <<"a-b", "a">>}
\* the <image> path segment each principal asks for (no '/' in it: Flask's
\* default converter); "a" with "b-x" and "a-b" with "x" get the same
\* container name when their uuid4 suffixes coincide
ImageOf == [u \in Users |-> IF u = "a" THEN "b-x" ELSE "x"]
Images == {ImageOf[u] : u \in Users}
Suffixes == {"s1", "s2"}        \* uuid.uuid4().hex[:8]
Passwords == {"pw1"}
NoArg == <<>>                   \* query argument absent
TTLArgs == {NoArg, <<-1>>} \cup {<<t>> : t \in 1..MaxTtl}
ExtendArgs == {NoArg, <<-1>>, <<0>>, <<1>>}

ContainerName(user_id, image, sfx) ==
    "workspaces-" \o user_id \o "-" \o image \o "-" \o sfx

\* <container_name> path segments
Names == {ContainerName(u, ImageOf[u], s) : u \in Users, s \in Suffixes}

TtlRange == (-MaxTtl..MaxTtl) \cup {DefaultTTL}

Second == TicksPerSec
Lease == DefaultTTL * TicksPerSec   \* the default lease, in ticks
ClockValues == (0..MaxClock) \cup {Lease}

-----------------------------------------------------------------------------
(* Helpers *)

get_user_id(hdr, cookie) ==
    IF hdr # NoId THEN hdr
    ELSE IF cookie # NoId THEN cookie
    ELSE "anonymous"

\* Unauthorized without the comparison with 'anonymous'
Unauthorized_emptyOnly(user_id) == user_id = NoId

Unauthorized(user_id) == user_id = NoId \/ user_id = "anonymous"

\* int(time.time()), int(created_dt.timestamp())
Ts(t) == t \div TicksPerSec

Idle == [pc |-> "idle"]
NoResp == [op |-> "none"]

\* a response: the handler, the identity it resolved, the path segment of
\* the request, the HTTP status, the store and runtime calls the request
\* made, the JSON body
Resp(op, user, arg, status, calls, body) ==
    [op |-> op, user |-> user, arg |-> arg, status |-> status,
     calls |-> calls, body |-> body]

Row(user_id, name, image, password, created, ttl) ==
    [user_id |-> user_id, container_name |-> name, image |-> image,
     password |-> password, created |-> created, ttl |-> ttl]

\* SelectRow without the user_id condition
SelectRow_byName(user_id, name) ==
    {r \in sessions : r.container_name = name}

\* SELECT ... WHERE user_id=? AND container_name=?
SelectRow(user_id, name) ==
    {r \in sessions : r.user_id = user_id /\ r.container_name = name}

\* INSERT OR REPLACE under PRIMARY KEY(user_id, container_name)
InsertOrReplace(row) ==
    (sessions \ SelectRow(row.user_id, row.container_name)) \cup {row}

\* UpdateTtl that also moves created to the time of the update
UpdateTtl_reanchored(user_id, name, ttl) ==
    {IF r.user_id = user_id /\ r.container_name = name
        THEN [r EXCEPT !.ttl = ttl, !.created = now] ELSE r : r \in sessions}

\* UPDATE sessions SET ttl=? WHERE user_id=? AND container_name=?
UpdateTtl(user_id, name, ttl) ==
    {IF r.user_id = user_id /\ r.container_name = name
        THEN [r EXCEPT !.ttl = ttl] ELSE r : r \in sessions}

\* DeleteRow without the user_id condition
DeleteRow_byName(user_id, name) ==
    {r \in sessions : r.container_name # name}

\* DELETE FROM sessions WHERE user_id=? AND container_name=?
DeleteRow(user_id, name) == sessions \ SelectRow(user_id, name)

\* the sweeper's connection holds the write lock from its first DELETE to
\* its commit; the other connections' writes wait for it
TxOpen == sweep.pc # "idle" /\ sweep.deleted # {}

\* no request and no sweep pass is between two of its steps
Quiet == \A p \in {start, stop, ext, sweep} : p.pc = "idle"

-----------------------------------------------------------------------------
Init ==
    /\ now = 0
    /\ sessions = {}
    /\ running = {}
    /\ start = Idle
    /\ stop = Idle
    /\ ext = Idle
    /\ sweep = Idle
    /\ out = NoResp

-----------------------------------------------------------------------------
(* Environment *)

Tick(d) ==
    /\ now + d \in ClockValues
    /\ now' = now + d
    /\ out' = NoResp
    /\ UNCHANGED <<sessions, running, start, stop, ext, sweep>>

\* a container exits on its own; remove=True makes the runtime drop it
ContainerExit ==
    /\ \E n \in running : running' = running \ {n}
    /\ out' = NoResp
    /\ UNCHANGED <<now, sessions, start, stop, ext, sweep>>

-----------------------------------------------------------------------------
(* api_start *)

\* ApiStart with the row stored before the pull
ApiStart_storedFirst(hdr, cookie, image, raw_ttl, sfx, password) ==
    /\ start.pc = "idle"
    /\ get_user_id(hdr, cookie) \in Users => image = ImageOf[get_user_id(hdr, cookie)]
    /\ LET user_id == get_user_id(hdr, cookie)
           ttl == IF raw_ttl # NoArg THEN raw_ttl[1] ELSE 0
           name == ContainerName(user_id, image, sfx)
       IN  IF Unauthorized(user_id)
           THEN /\ out' = Resp("start", user_id, image, 401, <<>>, "Unauthorized")
                /\ UNCHANGED <<start, sessions>>
           ELSE /\ start' = [pc |-> "run", user_id |-> user_id,
                             image |-> image, name |-> name, ttl |-> ttl,
                             password |-> password,
                             calls |-> <<"images.pull">>]
                /\ sessions' = InsertOrReplace(Row(user_id, name, image, password,
                                                   now, ttl))
                /\ out' = NoResp
    /\ UNCHANGED <<now, running, stop, ext, sweep>>

ApiStart(hdr, cookie, image, raw_ttl, sfx, password) ==
    /\ start.pc = "idle"
    /\ get_user_id(hdr, cookie) \in Users => image = ImageOf[get_user_id(hdr, cookie)]
    /\ LET user_id == get_user_id(hdr, cookie)
           ttl == IF raw_ttl # NoArg THEN raw_ttl[1] ELSE 0
           name == ContainerName(user_id, image, sfx)
       IN  IF Unauthorized(user_id)
           THEN /\ out' = Resp("start", user_id, image, 401, <<>>, "Unauthorized")
                /\ UNCHANGED start
           ELSE \E pulled \in BOOLEAN :
                  IF pulled
                  THEN /\ start' = [pc |-> "run", user_id |-> user_id,
                                    image |-> image, name |-> name, ttl |-> ttl,
                                    password |-> password,
                                    calls |-> <<"images.pull">>]
                       /\ out' = NoResp
                  ELSE /\ out' = Resp("start", user_id, image, 500, <<"images.pull">>, "pull")
                       /\ UNCHANGED start
    /\ UNCHANGED <<now, sessions, running, stop, ext, sweep>>

\* StartRun with the row stored before the launch
StartRun_storedFirst ==
    /\ start.pc = "run"
    /\ sessions' = InsertOrReplace(Row(start.user_id, start.name, start.image,
                                       start.password, now, start.ttl))
    /\ \E launched \in BOOLEAN :
          IF launched /\ start.name \notin running
          THEN /\ running' = running \cup {start.name}
               /\ start' = [start EXCEPT !.pc = "exec",
                               !.calls = Append(@, "containers.run")]
               /\ out' = NoResp
          ELSE /\ out' = Resp("start", start.user_id, start.image, 500,
                              Append(start.calls, "containers.run"), "run")
               /\ start' = Idle
               /\ UNCHANGED running
    /\ UNCHANGED <<now, stop, ext, sweep>>

\* client.containers.run(name=name, remove=True, detach=True): the runtime
\* refuses a name it already holds
StartRun ==
    /\ start.pc = "run"
    /\ \E launched \in BOOLEAN :
          IF launched /\ start.name \notin running
          THEN /\ running' = running \cup {start.name}
               /\ start' = [start EXCEPT !.pc = "exec",
                               !.calls = Append(@, "containers.run")]
               /\ out' = NoResp
          ELSE /\ out' = Resp("start", start.user_id, start.image, 500,
                              Append(start.calls, "containers.run"), "run")
               /\ start' = Idle
               /\ UNCHANGED running
    /\ UNCHANGED <<now, sessions, stop, ext, sweep>>

\* container.exec_run(vncpasswd ...): an exception is printed and dropped
\* StartExec with the exception of exec_run propagated: Flask answers 500
StartExec_propagated ==
    /\ start.pc = "exec"
    /\ \E injected \in BOOLEAN :
          IF injected /\ start.name \in running
          THEN /\ start' = [start EXCEPT !.pc = "insert",
                                         !.calls = Append(@, "exec_run")]
               /\ out' = NoResp
          ELSE /\ start' = Idle
               /\ out' = Resp("start", start.user_id, start.image, 500,
                              Append(start.calls, "exec_run:raised"), "exec")
    /\ UNCHANGED <<now, sessions, running, stop, ext, sweep>>

StartExec ==
    /\ start.pc = "exec"
    /\ \E injected \in BOOLEAN :
          start' = [start EXCEPT !.pc = "insert",
                       !.calls = Append(@, IF injected /\ start.name \in running
                                           THEN "exec_run" ELSE "exec_run:raised")]
    /\ out' = NoResp
    /\ UNCHANGED <<now, sessions, running, stop, ext, sweep>>

StartInsert ==
    /\ start.pc = "insert"
    /\ ~TxOpen
    /\ sessions' = InsertOrReplace(Row(start.user_id, start.name, start.image,
                                       start.password, now, start.ttl))
    /\ out' = Resp("start", start.user_id, start.image, 200,
                   Append(start.calls, "INSERT OR REPLACE"),
                   [name |-> start.name, username |-> "workspaces-user",
                    password |-> start.password, ttl |-> start.ttl])
    /\ start' = Idle
    /\ UNCHANGED <<now, running, stop, ext, sweep>>

-----------------------------------------------------------------------------
(* api_list *)

\* time_left = max(timedelta(0), created + timedelta(seconds=ttl) - now),
\* shown as "{hours}h {minutes}m"
TimeLeft(row) ==
    LET left == row.created + row.ttl * TicksPerSec - now
        total_seconds == IF left > 0 THEN left \div TicksPerSec ELSE 0
    IN  <<total_seconds \div 3600, (total_seconds % 3600) \div 60>>

ListEntry(row) ==
    IF row.ttl = 0
    THEN [name |-> row.container_name, image |-> row.image,
          password |-> row.password, infinite |-> TRUE,
          time_left |-> "Infinite", expires_at |-> "Never"]
    ELSE [name |-> row.container_name, image |-> row.image,
          password |-> row.password, infinite |-> FALSE,
          time_left |-> TimeLeft(row),
          expires_at |-> row.created + row.ttl * TicksPerSec]

\* ListRows without the WHERE clause
ListRows_all(user_id) == sessions

\* SELECT container_name, image, password, created, ttl
\* FROM sessions WHERE user_id=?
ListRows(user_id) == {r \in sessions : r.user_id = user_id}

ApiList(hdr, cookie) ==
    /\ LET user_id == get_user_id(hdr, cookie)
       IN  IF Unauthorized(user_id)
           THEN out' = Resp("list", user_id, "", 401, <<>>, "Unauthorized")
           ELSE out' = Resp("list", user_id, "", 200, <<"SELECT">>,
                            {ListEntry(r) : r \in ListRows(user_id)})
    /\ UNCHANGED <<now, sessions, running, start, stop, ext, sweep>>

-----------------------------------------------------------------------------
(* api_stop *)

ApiStop(hdr, cookie, container_name) ==
    /\ stop.pc = "idle"
    /\ LET user_id == get_user_id(hdr, cookie)
       IN  IF Unauthorized(user_id)
           THEN /\ out' = Resp("stop", user_id, container_name, 401, <<>>,
                               "Unauthorized")
                /\ UNCHANGED stop
           ELSE IF SelectRow(user_id, container_name) = {}
           THEN /\ out' = Resp("stop", user_id, container_name, 404, <<"SELECT">>,
                               "Container not found or unauthorized")
                /\ UNCHANGED stop
           ELSE /\ stop' = [pc |-> "stop", user_id |-> user_id,
                            name |-> container_name, calls |-> <<"SELECT">>]
                /\ out' = NoResp
    /\ UNCHANGED <<now, sessions, running, start, ext, sweep>>

\* client.containers.get(name) raises for a name the runtime does not hold;
\* container.stop() removes the container (remove=True) or raises
StopOutcomes(name) ==
    IF name \in running THEN {"stopped", "stop:raised"} ELSE {"get:raised"}

AfterStop(name, outcome) ==
    IF outcome = "stopped" THEN running \ {name} ELSE running

StopContainer ==
    /\ stop.pc = "stop"
    /\ \E outcome \in StopOutcomes(stop.name) :
          /\ running' = AfterStop(stop.name, outcome)
          /\ stop' = [stop EXCEPT !.pc = "delete",
                         !.calls = Append(@, outcome)]
    /\ out' = NoResp
    /\ UNCHANGED <<now, sessions, start, ext, sweep>>

StopDelete ==
    /\ stop.pc = "delete"
    /\ ~TxOpen
    /\ sessions' = DeleteRow(stop.user_id, stop.name)
    /\ out' = Resp("stop", stop.user_id, stop.name, 200,
                   Append(stop.calls, "DELETE"), "success")
    /\ stop' = Idle
    /\ UNCHANGED <<now, running, start, ext, sweep>>

-----------------------------------------------------------------------------
(* toggle_autokill *)

\* user_id = session.get('user_id'): the cookie alone, no header, no check
ToggleUser(hdr, cookie) == cookie

\* ToggleAutokill whose finite lease runs from the time of the toggle
ToggleAutokill_fromNow(hdr, cookie, container_name, is_infinite) ==
    /\ ~TxOpen
    /\ LET user_id == ToggleUser(hdr, cookie)
       IN  IF is_infinite
           THEN /\ sessions' = UpdateTtl(user_id, container_name, 0)
                /\ out' = Resp("toggle", user_id, container_name, 200,
                               <<"UPDATE">>, "infinite")
           ELSE /\ sessions' =
                      {IF r.user_id = user_id /\ r.container_name = container_name
                          THEN [r EXCEPT !.ttl = Ts(now) - Ts(r.created) + DefaultTTL]
                          ELSE r : r \in sessions}
                /\ out' = Resp("toggle", user_id, container_name, 200,
                               <<"UPDATE">>, "finite")
    /\ UNCHANGED <<now, running, start, stop, ext, sweep>>

ToggleAutokill(hdr, cookie, container_name, is_infinite) ==
    /\ ~TxOpen
    /\ LET user_id == ToggleUser(hdr, cookie)
       IN  IF is_infinite
           THEN /\ sessions' = UpdateTtl(user_id, container_name, 0)
                /\ out' = Resp("toggle", user_id, container_name, 200,
                               <<"UPDATE">>, "infinite")
           ELSE /\ sessions' = UpdateTtl(user_id, container_name, DefaultTTL)
                /\ out' = Resp("toggle", user_id, container_name, 200,
                               <<"UPDATE">>, "finite")
    /\ UNCHANGED <<now, running, start, stop, ext, sweep>>

-----------------------------------------------------------------------------
(* extend_session *)

\* ExtendSelect without the test of current_ttl == 0
ExtendSelect_noSentinel(hdr, cookie, container_name, raw_ttl) ==
    /\ ext.pc = "idle"
    /\ LET ttl == IF raw_ttl # NoArg THEN raw_ttl[1] ELSE DefaultTTL
           user_id == get_user_id(hdr, cookie)
           rows == SelectRow(user_id, container_name)
       IN  IF rows = {}
           THEN /\ out' = Resp("extend", user_id, container_name, 404, <<"SELECT">>,
                               "Container not found")
                /\ UNCHANGED ext
           ELSE LET row == CHOOSE r \in rows : TRUE
                IN  /\ ext' = [pc |-> "update", user_id |-> user_id,
                               name |-> container_name, ttl |-> ttl,
                               current_ttl |-> row.ttl,
                               old_created |-> Ts(row.created)]
                    /\ out' = NoResp
    /\ UNCHANGED <<now, sessions, running, start, stop, sweep>>

ExtendSelect(hdr, cookie, container_name, raw_ttl) ==
    /\ ext.pc = "idle"
    /\ LET ttl == IF raw_ttl # NoArg THEN raw_ttl[1] ELSE DefaultTTL
           user_id == get_user_id(hdr, cookie)
           rows == SelectRow(user_id, container_name)
       IN  IF rows = {}
           THEN /\ out' = Resp("extend", user_id, container_name, 404, <<"SELECT">>,
                               "Container not found")
                /\ UNCHANGED ext
           ELSE LET row == CHOOSE r \in rows : TRUE
                IN  IF row.ttl = 0
                    THEN /\ out' = Resp("extend", user_id, container_name, 200,
                                        <<"SELECT">>,
                                        "Container is already infinite")
                         /\ UNCHANGED ext
                    ELSE /\ ext' = [pc |-> "update", user_id |-> user_id,
                                    name |-> container_name, ttl |-> ttl,
                                    current_ttl |-> row.ttl,
                                    old_created |-> Ts(row.created)]
                         /\ out' = NoResp
    /\ UNCHANGED <<now, sessions, running, start, stop, sweep>>

\* TimeLeftAt without the max(0, ...)
TimeLeftAt_unclamped(current_ttl, old_created, now_ts) ==
    current_ttl - (now_ts - old_created)

\* time_elapsed = int(time.time()) - old_created
\* time_left = max(0, current_ttl - time_elapsed)
TimeLeftAt(current_ttl, old_created, now_ts) ==
    LET time_elapsed == now_ts - old_created
        left == current_ttl - time_elapsed
    IN  IF left > 0 THEN left ELSE 0

\* ExtendUpdate writing with INSERT OR REPLACE when the UPDATE finds no row
ExtendUpdate_upsert ==
    /\ ext.pc = "update"
    /\ ~TxOpen
    /\ LET time_left == TimeLeftAt(ext.current_ttl, ext.old_created, Ts(now))
           new_ttl == time_left + ext.ttl
       IN  /\ new_ttl \in TtlRange
           /\ sessions' = IF SelectRow(ext.user_id, ext.name) = {}
                          THEN InsertOrReplace(Row(ext.user_id, ext.name, "", "",
                                                   now, new_ttl))
                          ELSE UpdateTtl(ext.user_id, ext.name, new_ttl)
           /\ out' = Resp("extend", ext.user_id, ext.name, 200,
                          <<"SELECT", "UPDATE">>,
                          [old_remaining |-> time_left, added |-> ext.ttl,
                           new_ttl |-> new_ttl])
    /\ ext' = Idle
    /\ UNCHANGED <<now, running, start, stop, sweep>>

ExtendUpdate ==
    /\ ext.pc = "update"
    /\ ~TxOpen
    /\ LET time_left == TimeLeftAt(ext.current_ttl, ext.old_created, Ts(now))
           new_ttl == time_left + ext.ttl
       IN  /\ new_ttl \in TtlRange
           /\ sessions' = UpdateTtl(ext.user_id, ext.name, new_ttl)
           /\ out' = Resp("extend", ext.user_id, ext.name, 200,
                          <<"SELECT", "UPDATE">>,
                          [old_remaining |-> time_left, added |-> ext.ttl,
                           new_ttl |-> new_ttl])
    /\ ext' = Idle
    /\ UNCHANGED <<now, running, start, stop, sweep>>

-----------------------------------------------------------------------------
(* cleanup_old_containers *)

\* "SELECT container_name, created, ttl FROM sessions WHERE ttl > 0"
FiniteRows == {r \in sessions : r.ttl > 0}

\* Expired with the comparison made strict
Expired_strict(row, now_ts) == Ts(row.created) + row.ttl < now_ts

\* expires_at_ts = created_ts + ttl; expires_at_ts <= now_ts
Expired(row, now_ts) == Ts(row.created) + row.ttl <= now_ts

\* the names of the rows in some order (the scan has no ORDER BY)
NameLists(rows) ==
    {[i \in 1..Cardinality(rows) |-> f[i].container_name] :
        f \in {g \in [1..Cardinality(rows) -> rows] :
                 \A i, j \in 1..Cardinality(rows) : g[i] = g[j] => i = j}}

\* DELETE FROM sessions WHERE container_name=?
SweepDeleted(names) == {r \in sessions : r.container_name \notin names}

SweepSelect ==
    /\ sweep.pc = "idle"
    /\ LET now_ts == Ts(now)
           expired == {r \in FiniteRows : Expired(r, now_ts)}
       IN  IF expired = {}
           THEN /\ out' = Resp("sweep", "", "", 0, <<"SELECT">>,
                               [now_ts |-> now_ts, stops |-> <<>>])
                /\ UNCHANGED sweep
           ELSE /\ \E names \in NameLists(expired) :
                      sweep' = [pc |-> "stop", now_ts |-> now_ts,
                                expired_names |-> names, deleted |-> {},
                                stops |-> <<>>]
                /\ out' = NoResp
    /\ UNCHANGED <<now, sessions, running, start, stop, ext>>

SweepStop ==
    /\ sweep.pc = "stop"
    /\ \E outcome \in StopOutcomes(Head(sweep.expired_names)) :
          /\ running' = AfterStop(Head(sweep.expired_names), outcome)
          /\ sweep' = [sweep EXCEPT !.pc = "delete",
                           !.stops = Append(@, outcome)]
    /\ out' = NoResp
    /\ UNCHANGED <<now, sessions, start, stop, ext>>

\* SweepDelete without conn.commit(): closing the connection rolls back
SweepDelete_uncommitted ==
    /\ sweep.pc = "delete"
    /\ LET deleted == sweep.deleted \cup {Head(sweep.expired_names)}
           rest == Tail(sweep.expired_names)
       IN  IF rest # <<>>
           THEN /\ sweep' = [sweep EXCEPT !.pc = "stop", !.deleted = deleted,
                                          !.expired_names = rest]
                /\ out' = NoResp
           ELSE /\ sweep' = Idle
                /\ out' = Resp("sweep", "", "", 0, <<"SELECT", "DELETE">>,
                               [now_ts |-> sweep.now_ts, stops |-> sweep.stops])
    /\ UNCHANGED <<now, sessions, running, start, stop, ext>>

\* the DELETEs are pending in the sweeper's transaction until conn.commit()
SweepDelete ==
    /\ sweep.pc = "delete"
    /\ LET deleted == sweep.deleted \cup {Head(sweep.expired_names)}
           rest == Tail(sweep.expired_names)
       IN  IF rest # <<>>
           THEN /\ sweep' = [sweep EXCEPT !.pc = "stop", !.deleted = deleted,
                                          !.expired_names = rest]
                /\ out' = NoResp
                /\ UNCHANGED sessions
           ELSE /\ sessions' = SweepDeleted(deleted)
                /\ sweep' = Idle
                /\ out' = Resp("sweep", "", "", 0, <<"SELECT", "DELETE">>,
                               [now_ts |-> sweep.now_ts, stops |-> sweep.stops])
    /\ UNCHANGED <<now, running, start, stop, ext>>

-----------------------------------------------------------------------------
\* the handlers that answer in one step
Atomic ==
    \/ \E c \in Callers : ApiList(c[1], c[2])
    \/ \E c \in Callers, name \in Names, is_infinite \in BOOLEAN :
          ToggleAutokill(c[1], c[2], name, is_infinite)

\* the first step of the handlers that take several, and of a sweep pass
Open(sfxs) ==
    \/ \E c \in Callers, image \in Images, raw_ttl \in TTLArgs,
          sfx \in sfxs, password \in Passwords :
          ApiStart(c[1], c[2], image, raw_ttl, sfx, password)
    \/ \E c \in Callers, name \in Names : ApiStop(c[1], c[2], name)
    \/ \E c \in Callers, name \in Names, raw_ttl \in ExtendArgs :
          ExtendSelect(c[1], c[2], name, raw_ttl)
    \/ SweepSelect

Continue ==
    \/ StartRun
    \/ StartExec
    \/ StartInsert
    \/ StopContainer
    \/ StopDelete
    \/ ExtendUpdate
    \/ SweepStop
    \/ SweepDelete

\* One request of several steps or one sweep pass at a time; api_list,
\* toggle_autokill, the clock (whole seconds) and the runtime act between
\* its steps.  Every generated name carries the same suffix.
Next ==
    \/ Quiet /\ Open({"s1"})
    \/ Atomic
    \/ \E d \in {Second, Lease} : Tick(d)
    \/ ContainerExit
    \/ Continue

Spec == Init /\ [][Next]_vars

\* One request or one sweep pass at a time, each run to its end with
\* nothing in between; the clock advances by fractions of a second.  Every
\* generated name carries the same suffix.
NextSeq ==
    \/ Quiet /\ (Open({"s1"}) \/ Atomic \/ ContainerExit \/ \E d \in {1, Lease} : Tick(d))
    \/ Continue

SpecSeq == Init /\ [][NextSeq]_vars

\* Provisioning, listing and sweeping alone, one at a time: no
\* toggle_autokill, no extend_session, no api_stop.  uuid4 gives one of two
\* suffixes.
NextProv ==
    \/ Quiet /\ \E c \in Callers, image \in Images, raw_ttl \in {NoArg, <<1>>},
                   sfx \in Suffixes, password \in Passwords :
                   ApiStart(c[1], c[2], image, raw_ttl, sfx, password)
    \/ Quiet /\ \E c \in Callers : ApiList(c[1], c[2])
    \/ Quiet /\ SweepSelect
    \/ Quiet /\ ContainerExit
    \/ Quiet /\ Tick(Second)
    \/ StartRun
    \/ StartExec
    \/ StartInsert
    \/ SweepStop
    \/ SweepDelete

SpecProv == Init /\ [][NextProv]_vars

\* api_stop, extend_session and a sweep pass in flight together, their steps
\* interleaved in every order, with toggle_autokill between them;
\* provisioning, the clock and the runtime act when nothing is in flight.
NextRace ==
    \/ Quiet /\ \E c \in Callers, image \in Images, raw_ttl \in {NoArg, <<1>>},
                   password \in Passwords :
                   ApiStart(c[1], c[2], image, raw_ttl, "s1", password)
    \/ start.pc = "idle" /\ \E c \in Callers, name \in Names : ApiStop(c[1], c[2], name)
    \/ start.pc = "idle" /\ \E c \in Callers, name \in Names :
                              ExtendSelect(c[1], c[2], name, <<1>>)
    \/ start.pc = "idle" /\ SweepSelect
    \/ start.pc = "idle" /\ \E c \in Callers, name \in Names, is_infinite \in BOOLEAN :
                              ToggleAutokill(c[1], c[2], name, is_infinite)
    \/ Quiet /\ Tick(Second)
    \/ Quiet /\ ContainerExit
    \/ Continue

SpecRace == Init /\ [][NextRace]_vars

\* A provisioning and a sweep pass in flight together, their steps
\* interleaved in every order, with api_list, the clock and the runtime
\* acting between them.
NextConc ==
    \/ \E c \in Callers, image \in Images, raw_ttl \in {NoArg, <<1>>},
          password \in Passwords :
          ApiStart(c[1], c[2], image, raw_ttl, "s1", password)
    \/ SweepSelect
    \/ \E c \in Callers : ApiList(c[1], c[2])
    \/ Tick(Second)
    \/ ContainerExit
    \/ StartRun
    \/ StartExec
    \/ StartInsert
    \/ SweepStop
    \/ SweepDelete

SpecConc == Init /\ [][NextConc]_vars

\* SpecConc with the sweeper invoked again and again and every pass run to
\* its end; nothing is assumed of the requests, the clock or the runtime.
FairConc ==
    /\ SpecConc
    /\ WF_vars(SweepSelect)
    /\ WF_vars(SweepStop)
    /\ WF_vars(SweepDelete)
-----------------------------------------------------------------------------
(* Steps of the sweeper, as the properties below name them *)

\* the step in which a pass commits its DELETEs
SweepCommits == sweep.pc = "delete" /\ sweep'.pc = "idle"

\* the step in which a pass returns
SweepReturns == out'.op = "sweep"

\* C1: the sweeper never deletes a session with ttl_seconds == 0: no row
\* whose ttl is 0 when the pass's DELETEs take effect is removed by the pass.
C1_SweepSparesInfinite ==
    [][SweepCommits => \A r \in sessions \ sessions' : r.ttl # 0]_vars

\* C2: a sweep pass run at time now with nothing concurrent leaves no row
\* with ttl_seconds > 0 and created_at + ttl_seconds <= now in the store,
\* whatever the outcome of the stops of the pass.
C2_SweepDeletesEveryExpired ==
    [][SweepReturns =>
         \A r \in sessions :
            (r.ttl > 0 /\ r.created + r.ttl * TicksPerSec <= now)
               => r \notin sessions']_vars

\* a pass has returned after two stops, one of which raised
C2_Witness ==
    /\ out.op = "sweep"
    /\ Len(out.body.stops) = 2
    /\ \E i \in 1..2 : out.body.stops[i] # "stopped"
    /\ \E i \in 1..2 : out.body.stops[i] = "stopped"

\* C3: every stored row has ttl_seconds >= 0.
C3_TtlNonNegative == \A r \in sessions : r.ttl >= 0

\* C7: the rows a sweep pass removes are expired finite rows: a row of
\* another owner under the same container_name that is infinite or not yet
\* expired stays in the store.
C7_SweepDeleteScoped ==
    [][SweepCommits =>
         \A r \in sessions \ sessions' :
            r.ttl > 0 /\ Ts(r.created) + r.ttl <= sweep.now_ts]_vars

C5_ListOnlyOwn ==
    [][(out'.op = "list" /\ out'.status = 200) =>
          {<<e.name, e.image, e.infinite>> : e \in out'.body}
             = {<<r.container_name, r.image, r.ttl = 0>> :
                   r \in {q \in sessions : q.user_id = out'.user}}]_vars

\* a list has returned a row whose container_name another owner holds too
C5_Witness ==
    /\ out.op = "list"
    /\ out.status = 200
    /\ \E e \in out.body :
          \E r \in sessions :
             r.user_id # out.user /\ r.container_name = e.name

C8_StopAbsentIsNotFound ==
    [][/\ ( /\ out'.op = "stop"
            /\ stop.pc = "idle"
            /\ out'.user \notin {NoId, "anonymous"}
            /\ ~ \E r \in sessions :
                   r.user_id = out'.user /\ r.container_name = out'.arg ) =>
             /\ out'.status = 404
             /\ out'.calls = <<"SELECT">>
             /\ sessions' = sessions
             /\ running' = running
             /\ stop' = stop
       /\ (stop.pc = "idle" /\ stop'.pc # "idle") =>
             \E r \in sessions :
                r.user_id = stop'.user_id /\ r.container_name = stop'.name]_vars

\* a stop was answered 404 for a container_name that another owner's row
\* carries
C8_Witness ==
    /\ out.op = "stop"
    /\ out.status = 404
    /\ \E r \in sessions : r.container_name = out.arg

\* C9: api_start, api_list and api_stop called without an identity, or as
\* 'anonymous', answer 401 having made no store or runtime call; store and
\* runtime are unchanged and no such request goes past its first step.
C9_AnonymousRejected ==
    [][/\ ( /\ out'.op \in {"start", "list", "stop"}
            /\ out'.user \in {NoId, "anonymous"} ) =>
             /\ out'.status = 401
             /\ out'.calls = <<>>
             /\ sessions' = sessions
             /\ running' = running
             /\ start' = start
             /\ stop' = stop
       /\ start'.pc # "idle" => start'.user_id \notin {NoId, "anonymous"}
       /\ stop'.pc # "idle" => stop'.user_id \notin {NoId, "anonymous"}]_vars

\* a provisioning without identity was answered 401 while the store holds
\* a row and the runtime a container
C9_Witness ==
    /\ out.op = "start"
    /\ out.status = 401
    /\ out.user = "anonymous"
    /\ sessions # {}
    /\ running # {}

\* C10: toggle_autokill called with no resolvable identity (no header, no
\* session cookie) answers Unauthorized and makes no store call.
C10_ToggleUnauthorized ==
    [][(out'.op = "toggle" /\ out'.user = NoId) =>
          (out'.status = 401 /\ out'.calls = <<>>)]_vars

\* C11: an extend_session of the caller on a row of theirs with ttl > 0 goes
\* on to its UPDATE; with created_at and now as timestamps in seconds, it
\* answers old_remaining = max(0, ttl - (now - created_at)) and new_ttl =
\* old_remaining + added, stores new_ttl in the row and leaves the row's
\* other fields, created_at among them, as they were.
C11_ExtendArithmetic ==
    [][/\ (out'.op = "extend" /\ ext.pc = "update") =>
             \A r \in sessions :
                (r.user_id = out'.user /\ r.container_name = out'.arg /\ r.ttl > 0) =>
                   LET elapsed == (now \div TicksPerSec) - (r.created \div TicksPerSec)
                       remaining == IF r.ttl - elapsed > 0 THEN r.ttl - elapsed ELSE 0
                   IN  /\ out'.status = 200
                       /\ out'.body.added = ext.ttl
                       /\ out'.body.old_remaining = remaining
                       /\ out'.body.new_ttl = remaining + ext.ttl
                       /\ [r EXCEPT !.ttl = remaining + ext.ttl] \in sessions'
                       /\ \A q \in sessions' :
                             (q.user_id = r.user_id /\ q.container_name = r.container_name)
                                => q.created = r.created
       /\ (out'.op = "extend" /\ ext.pc = "idle") =>
             ~ \E r \in sessions :
                  r.user_id = out'.user /\ r.container_name = out'.arg /\ r.ttl > 0]_vars

\* an extend by one second of a default lease one second old has answered
C11_Witness ==
    /\ out.op = "extend"
    /\ out.calls = <<"SELECT", "UPDATE">>
    /\ out.body.old_remaining = DefaultTTL - 1
    /\ out.body.added = 1
    /\ \E r \in sessions :
          r.user_id = out.user /\ r.container_name = out.arg /\ r.ttl = DefaultTTL

\* C12: an extend_session of the caller on a row of theirs whose ttl is 0
\* answers 200 'Container is already infinite' after its SELECT alone, goes
\* no further, and leaves the store, that row included, as it was.
C12_ExtendInfiniteNoOp ==
    [][/\ ( /\ out'.op = "extend"
            /\ ext.pc = "idle"
            /\ \E r \in sessions :
                  r.user_id = out'.user /\ r.container_name = out'.arg /\ r.ttl = 0 ) =>
             /\ out'.status = 200
             /\ out'.calls = <<"SELECT">>
             /\ out'.body = "Container is already infinite"
             /\ sessions' = sessions
             /\ ext' = ext
       /\ (ext.pc = "idle" /\ ext'.pc # "idle") =>
             ~ \E r \in sessions :
                  r.user_id = ext'.user_id /\ r.container_name = ext'.name /\ r.ttl = 0]_vars

\* an extend was answered 'already infinite' on a row created a lease ago
C12_Witness ==
    /\ out.op = "extend"
    /\ out.status = 200
    /\ out.calls = <<"SELECT">>
    /\ \E r \in sessions :
          /\ r.user_id = out.user /\ r.container_name = out.arg
          /\ r.ttl = 0
          /\ r.created + Lease <= now

\* C13: for a row of the caller with ttl > 0 that has not expired and an
\* added value > 0, the time remaining right after the extend (created_at +
\* new ttl - now) is the time remaining before it plus the added seconds;
\* the expiry instant created_at + ttl does not move earlier and the row is
\* not expired right after the extend.  Instants in whole seconds.
C13_ExtendAddsToRemaining ==
    [][(out'.op = "extend" /\ ext.pc = "update" /\ ext.ttl > 0) =>
          \A r \in sessions :
             ( /\ r.user_id = out'.user /\ r.container_name = out'.arg
               /\ r.ttl > 0
               /\ (r.created \div TicksPerSec) + r.ttl > now \div TicksPerSec ) =>
                \A q \in sessions' :
                   (q.user_id = r.user_id /\ q.container_name = r.container_name) =>
                      LET now_ts == now \div TicksPerSec
                          before == (r.created \div TicksPerSec) + r.ttl - now_ts
                          after == (q.created \div TicksPerSec) + q.ttl - now_ts
                      IN  /\ after = before + ext.ttl
                          /\ (q.created \div TicksPerSec) + q.ttl
                                >= (r.created \div TicksPerSec) + r.ttl
                          /\ after > 0]_vars

\* C14: a toggle_autokill request of a caller, on a row of that caller
\* whatever its ttl, stores ttl = 0 and answers 'infinite' when asked for
\* infinite, stores ttl = 7200 and answers 'finite' otherwise.  The caller
\* is the principal of the request: the proxy's header, else the cookie.
C14_ToggleSetsMode ==
    [][\A c \in Callers, name \in Names, is_infinite \in BOOLEAN :
          ToggleAutokill(c[1], c[2], name, is_infinite) =>
             /\ out'.status = 200
             /\ out'.body = (IF is_infinite THEN "infinite" ELSE "finite")
             /\ \A r \in sessions :
                   (r.user_id = get_user_id(c[1], c[2]) /\ r.container_name = name) =>
                      [r EXCEPT !.ttl = IF is_infinite THEN 0 ELSE DefaultTTL]
                         \in sessions']_vars

\* C15: a provisioning without ?ttl= stores its row with ttl = 0; api_list
\* reports a row as infinite exactly when its ttl is 0; and, no
\* toggle_autokill being applied (the specification has none, so every row
\* with ttl = 0 was provisioned without ?ttl=), a row with ttl = 0 is still
\* in the store after every sweep pass.
C15_NoTtlIsInfiniteAndKept ==
    [][/\ \A c \in Callers, image \in Images, sfx \in Suffixes, password \in Passwords :
             (ApiStart(c[1], c[2], image, NoArg, sfx, password) /\ start'.pc = "run")
                => start'.ttl = 0
       /\ (start.pc = "insert" /\ start'.pc = "idle") =>
             \E r \in sessions' :
                /\ r.user_id = start.user_id /\ r.container_name = start.name
                /\ r.ttl = start.ttl
       /\ (out'.op = "list" /\ out'.status = 200) =>
             \A e \in out'.body :
                \E r \in sessions :
                   /\ r.user_id = out'.user /\ r.container_name = e.name
                   /\ e.infinite <=> (r.ttl = 0)
       /\ SweepCommits =>
             \A r \in sessions : r.ttl = 0 => r \in sessions']_vars

\* C16: a provisioning whose pull and launch succeeded goes on to its
\* INSERT whether exec_run succeeded or raised; it then answers 200 with
\* login name, credential, ttl and container name (the URL is built from
\* the name), and the store holds the caller's row under that name with the
\* credential and the ttl of the answer.
C16_InjectionFailureStillProvisions ==
    [][/\ (start.pc = "exec" /\ start' # start) =>
             /\ start'.pc = "insert"
             /\ out'.op = "none"
             /\ sessions' = sessions
       /\ (start.pc = "insert" /\ start' # start) =>
             /\ out'.op = "start"
             /\ out'.status = 200
             /\ out'.body.username = "workspaces-user"
             /\ \E r \in sessions' :
                   /\ r.user_id = out'.user
                   /\ r.container_name = out'.body.name
                   /\ r.image = out'.arg
                   /\ r.password = out'.body.password
                   /\ r.ttl = out'.body.ttl]_vars

\* a provisioning has answered 200 after pull, launch and a raised exec_run
C16_Witness ==
    /\ out.op = "start"
    /\ out.status = 200
    /\ out.calls = <<"images.pull", "containers.run", "exec_run:raised",
                     "INSERT OR REPLACE">>
    /\ \E r \in sessions :
          /\ r.user_id = out.user /\ r.container_name = out.body.name
          /\ r.password = out.body.password /\ r.ttl = out.body.ttl

\* C17: when a provisioning succeeds for an owner and an image for which
\* the store already holds the row of an earlier successful provisioning,
\* the new container_name differs from the earlier one and the earlier row
\* is still in the store, as it was, next to the new one.
C17_TwoProvisionsTwoRows ==
    [][(start.pc = "insert" /\ start'.pc = "idle") =>
          \A r \in sessions :
             (r.user_id = start.user_id /\ r.image = start.image) =>
                /\ r.container_name # start.name
                /\ r \in sessions'
                /\ \E q \in sessions' :
                      q.user_id = start.user_id /\ q.container_name = start.name]_vars

\* C18: in every step, a row that is in the store before and whose key is
\* in the store after has the same user_id, container_name, image, password
\* and created after as before, unless the step is the INSERT OR REPLACE of
\* a provisioning on that key (REPLACE deletes the old row and inserts a new
\* one).  A toggle or an extend leaves every row but the one with the key
\* it names as it was, adds no row and removes none.
C18_OnlyTtlMutates ==
    [][/\ \A r \in sessions :
             \/ /\ start.pc = "insert" /\ start'.pc = "idle"
                /\ r.user_id = start.user_id /\ r.container_name = start.name
             \/ \A q \in sessions' :
                   (q.user_id = r.user_id /\ q.container_name = r.container_name)
                      => [q EXCEPT !.ttl = r.ttl] = r
       /\ out'.op \in {"toggle", "extend"} =>
             /\ \A r \in sessions :
                   (r.user_id # out'.user \/ r.container_name # out'.arg)
                      => r \in sessions'
             /\ \A r \in sessions :
                   \E q \in sessions' : [q EXCEPT !.ttl = r.ttl] = r
             /\ \A q \in sessions' :
                   \E r \in sessions : [r EXCEPT !.ttl = q.ttl] = q]_vars

\* an extend has changed the ttl of a row created earlier, next to the row
\* of another owner
C18_Witness ==
    /\ out.op = "extend"
    /\ out.calls = <<"SELECT", "UPDATE">>
    /\ out.body.new_ttl # out.body.old_remaining
    /\ \E r, q \in sessions :
          /\ r.user_id = out.user /\ r.container_name = out.arg
          /\ r.ttl = out.body.new_ttl
          /\ r.created < now
          /\ q.user_id # r.user_id

\* the container_names a pass has deleted when it commits
SweepCommitNames == sweep.deleted \cup {Head(sweep.expired_names)}

\* C19: with an api_stop and a sweep pass in flight on the same expired
\* row, in every order of their steps: the DELETE of api_stop answers 200
\* and the pass returns, also when the row is already gone; after either
\* DELETE the row is absent and no step but a provisioning's INSERT brings a
\* key back; an api_stop or extend_session that reads an absent key answers
\* 404; and no other row is changed: the stop removes nothing but its own
\* key, the pass nothing but expired finite rows, and rows that stay are as
\* they were.
C19_StopSweepRace ==
    [][/\ (stop.pc = "delete" /\ stop' # stop) =>
             /\ out'.op = "stop" /\ out'.status = 200
             /\ ~ \E q \in sessions' :
                    q.user_id = stop.user_id /\ q.container_name = stop.name
             /\ \A r \in sessions :
                   (r.user_id # stop.user_id \/ r.container_name # stop.name)
                      => r \in sessions'
       /\ SweepCommits =>
             /\ out'.op = "sweep"
             /\ ~ \E q \in sessions' : q.container_name \in SweepCommitNames
             /\ sessions' \subseteq sessions
       /\ (SweepCommits /\ stop.pc # "idle" /\ stop.name \in SweepCommitNames) =>
             \A r \in sessions \ sessions' :
                \/ r.user_id = stop.user_id /\ r.container_name = stop.name
                \/ r.ttl > 0 /\ (r.created \div TicksPerSec) + r.ttl <= sweep.now_ts
       /\ ~ (start.pc = "insert" /\ start' # start) =>
             \A q \in sessions' :
                \E r \in sessions :
                   r.user_id = q.user_id /\ r.container_name = q.container_name
       /\ ( /\ out'.op \in {"stop", "extend"}
            /\ out'.calls = <<"SELECT">>
            /\ out'.user \notin {NoId, "anonymous"}
            /\ ~ \E r \in sessions :
                   r.user_id = out'.user /\ r.container_name = out'.arg ) =>
             out'.status = 404]_vars

\* C20: only the INSERT of a provisioning adds a key to the store: every
\* other step leaves the set of keys as it was or smaller, and a toggle or
\* an extend that answers for a key the store does not hold, also a key
\* removed by a stop or a sweep pass after the extend's SELECT, leaves the
\* store as it was.
C20_OnlyProvisionCreates ==
    [][/\ ~ (start.pc = "insert" /\ start' # start) =>
             \A q \in sessions' :
                \E r \in sessions :
                   r.user_id = q.user_id /\ r.container_name = q.container_name
       /\ ( /\ out'.op \in {"toggle", "extend"}
            /\ ~ \E r \in sessions :
                   r.user_id = out'.user /\ r.container_name = out'.arg ) =>
             sessions' = sessions]_vars

\* an extend has run its UPDATE on a key that was removed after its SELECT,
\* while another row is in the store
C20_Witness ==
    /\ out.op = "extend"
    /\ out.calls = <<"SELECT", "UPDATE">>
    /\ ~ \E r \in sessions :
           r.user_id = out.user /\ r.container_name = out.arg
    /\ sessions # {}

\* C21: with a sweep pass and api_list interleaved with a provisioning, the
\* store gains or replaces a row only in the provisioning's last step, after
\* images.pull, containers.run and exec_run have been called, and that row
\* is the provisioning's own; the earlier steps of a provisioning leave the
\* store as it was; api_list shows rows of the store only.
C21_InsertIsLastStep ==
    [][/\ \A q \in sessions' \ sessions :
             /\ start.pc = "insert"
             /\ Len(start.calls) = 3
             /\ start.calls[1] = "images.pull"
             /\ start.calls[2] = "containers.run"
             /\ start.calls[3] \in {"exec_run", "exec_run:raised"}
             /\ q.user_id = start.user_id /\ q.container_name = start.name
             /\ start'.pc = "idle"
             /\ out'.op = "start" /\ out'.status = 200
       /\ (start' # start /\ start'.pc # "idle") => sessions' = sessions
       /\ (out'.op = "list" /\ out'.status = 200) =>
             \A e \in out'.body :
                \E r \in sessions :
                   r.user_id = out'.user /\ r.container_name = e.name]_vars

\* a provisioning has stored its row while a sweep pass was between its
\* SELECT and its DELETE
C21_Witness ==
    /\ out.op = "start"
    /\ out.status = 200
    /\ sweep.pc # "idle"
    /\ \E r \in sessions :
          r.user_id = out.user /\ r.container_name = out.body.name

\* the rows with ttl > 0 that the store can hold
FiniteRowValues ==
    {Row(u, n, ImageOf[u], p, t, ttl) :
        u \in Users, n \in Names, p \in Passwords, t \in ClockValues,
        ttl \in 1..MaxTtl}

\* C22: with sweep passes invoked again and again, and no extend, toggle or
\* stop, a row with ttl > 0 that is in the store when the clock has reached
\* created_at + ttl is eventually not in the store.
C22_ExpiredEventuallySwept ==
    \A r \in FiniteRowValues :
       (r \in sessions /\ r.created + r.ttl * TicksPerSec <= now)
          ~> (r \notin sessions)

\* a pass has deleted an expired row and returned while a provisioning is
\* in flight
C22_Witness ==
    /\ out.op = "sweep"
    /\ out.calls = <<"SELECT", "DELETE">>
    /\ start.pc # "idle"
    /\ now >= Second

\* C23: a row whose ttl is 0 keeps ttl = 0 in every step in which it stays
\* in the store, unless the step is a toggle_autokill with infinite = False
\* or the INSERT OR REPLACE of a provisioning on its key; in particular the
\* UPDATE of an extend that read the row before a toggle made it infinite
\* leaves the ttl at 0.
C23_InfiniteStaysInfinite ==
    [][\A r \in sessions :
          r.ttl = 0 =>
             \/ out'.op = "toggle" /\ out'.body = "finite"
             \/ /\ start.pc = "insert" /\ start' # start
                /\ r.user_id = start.user_id /\ r.container_name = start.name
             \/ \A q \in sessions' :
                   (q.user_id = r.user_id /\ q.container_name = r.container_name)
                      => q.ttl = 0]_vars

\* C24: a toggle_autokill with infinite = False stores ttl = 7200 in the row
\* it addresses and leaves created_at as it was, so a row created 7200
\* seconds or more before the toggle is expired right after it; and a sweep
\* pass run on such a row leaves it out of the store.
C24_ToggleFiniteOnOldRow ==
    [][/\ (out'.op = "toggle" /\ out'.body = "finite") =>
             \A r \in sessions :
                (r.user_id = out'.user /\ r.container_name = out'.arg) =>
                   /\ [r EXCEPT !.ttl = 7200] \in sessions'
                   /\ r.created + 7200 * TicksPerSec <= now =>
                         \E q \in sessions' :
                            /\ q.user_id = r.user_id
                            /\ q.container_name = r.container_name
                            /\ q.created = r.created
                            /\ q.ttl > 0
                            /\ (q.created \div TicksPerSec) + q.ttl
                                  <= now' \div TicksPerSec
       /\ SweepReturns =>
             \A r \in sessions :
                (r.ttl = 7200 /\ r.created + 7200 * TicksPerSec <= now)
                   => r \notin sessions']_vars

\* a toggle to finite has answered on a row created a full lease earlier
C24_Witness ==
    /\ out.op = "toggle"
    /\ out.body = "finite"
    /\ \E r \in sessions :
          /\ r.user_id = out.user /\ r.container_name = out.arg
          /\ r.ttl = 7200
          /\ r.created + 7200 * TicksPerSec <= now

\* C25: an extend_session with added seconds >= 0 on a row of the caller
\* with ttl > 0, whatever the time elapsed, stores a ttl > 0.
C25_ExtendKeepsFinite ==
    [][(out'.op = "extend" /\ ext.pc = "update" /\ ext.ttl >= 0) =>
          \A r \in sessions :
             (r.user_id = out'.user /\ r.container_name = out'.arg /\ r.ttl > 0) =>
                \A q \in sessions' :
                   (q.user_id = r.user_id /\ q.container_name = r.container_name)
                      => q.ttl > 0]_vars

\* C26: when an api_stop answers 200 the container it named is not held by
\* the runtime, and when a sweep pass commits, no container named by a row
\* it removed is held by the runtime, whatever the outcome of the runtime's
\* stop call.
C26_TeardownLeavesNoContainer ==
    [][/\ (out'.op = "stop" /\ out'.status = 200) => out'.arg \notin running'
       /\ SweepCommits =>
             \A r \in sessions \ sessions' : r.container_name \notin running']_vars
====
